---- MODULE Spec2Model ----
(***************************************************************************)
(* Real-time chat delivery layer of MkulimaSmart:                          *)
(*   chat/jwt_middleware.py  JWTAuthMiddleware (handshake authentication)  *)
(*   chat/consumers.py       ChatConsumer (connect / receive / disconnect, *)
(*                           the active_channels registry, direct fan-out) *)
(* One consumer instance serves one WebSocket connection.  A handler runs  *)
(* atomically between two awaits; handlers of different connections        *)
(* interleave at the awaits.                                               *)
(***************************************************************************)
EXTENDS Integers, Sequences, FiniteSets, TLC

VARIABLES active_channels, pc, scope, outbound, channel, groups, replies,
          local, log, nframes, probe, assigned_to, ecop

vars == <<active_channels, pc, scope, outbound, channel, groups, replies,
          local, log, nframes, probe, assigned_to, ecop>>

-----------------------------------------------------------------------------
(* Bounds of the model.                                                    *)

\* Connections (consumer instances); a connection's channel_name is its id.
Conns == {"c1", "c2", "c3"}

\* Inbound frames accepted over one behaviour.
MaxFrames == 1

-----------------------------------------------------------------------------
(* The externally owned data the chat core reads.                          *)

Anonymous == "anonymous"

None == "None"

\* website.User rows: id -> phone_number, is_farmer, is_staff
Users == {"u1", "u2", "u3", "u4"}

phone_number(u) == CASE u = "u1" -> "P1" [] u = "u2" -> "P2" [] u = "u3" -> "P3" [] OTHER -> "P4"

is_farmer(u) == u \in {"u1", "u4"}

is_staff(u) == u = "u3"

\* gova_pp.FarmerMessage rows (the threads): id -> farmer_phone, and the
\* assigned_to_id each row starts with
Threads == {7, 8}

\* Route targets a client may name: the threads and one id without a row.
RouteIds == Threads \cup {9}

farmer_phone(t) == IF t = 7 THEN "P1" ELSE "P4"

assigned_to_id(t) == IF t = 7 THEN "u2" ELSE None

\* Message texts a client may send.
Texts == {"hi", "yo"}

-----------------------------------------------------------------------------
(* chat/jwt_middleware.py                                                  *)

\* What a handshake may carry as its credential: [kind, uid].
\*   none          no subprotocol header and no token query parameter
\*   bad_header    a sec-websocket-protocol value that is not valid UTF-8
\*   expired, malformed, unknown_user, lookup_fault: a token whose decoding
\*                 or user lookup fails that way
\*   valid         a signed, unexpired token naming user uid
FailKinds == {"none", "bad_header", "expired", "malformed", "unknown_user", "lookup_fault"}

Creds == [kind : FailKinds, uid : {None}] \cup [kind : {"valid"}, uid : Users]

NoCred == [kind |-> "none", uid |-> None]

\* Values a claim of a decoded payload may have: None (the claim is absent or
\* null), the number 0, the empty string, the id of a user, an id without a
\* user row.
Falsy == {None, "zero", "empty"}

ClaimValues == Falsy \cup {"u1", "u2", "u9"}

Payloads == [uid : ClaimValues, user_id : ClaimValues]

\* (mutant) the standard claim taken first
ResolveUserIdStandardFirst(payload) ==
    IF payload.user_id \notin Falsy THEN payload.user_id ELSE payload.uid

\* _get_user_from_token, line 100: payload.get('uid') or payload.get('user_id')
ResolveUserId(payload) ==
    IF payload.uid \notin Falsy THEN payload.uid ELSE payload.user_id

\* _get_user_from_token, lines 100-109 and 116-118, for a token that decodes:
\* the user of the resolved id, AnonymousUser when there is no id or no such
\* user
UserFromPayload(payload) ==
    LET user_id == ResolveUserId(payload)
    IN  IF user_id \in Falsy THEN Anonymous
        ELSE IF user_id \in Users THEN user_id
        ELSE Anonymous

\* _get_user_from_token: the user, or AnonymousUser on every failure.  A
\* "valid" credential is a token that decodes to the payload {uid: cred.uid}.
GetUserFromToken(cred) ==
    IF cred.kind = "valid"
    THEN UserFromPayload([uid |-> cred.uid, user_id |-> None])
    ELSE Anonymous

\* (mutant) the middleware reporting every failure as "invalid_token"
MiddlewareAuthErrorSame(cred) ==
    IF GetUserFromToken(cred) = Anonymous \/ cred.kind = "bad_header" THEN "invalid_token" ELSE None

\* JWTAuthMiddleware.__call__: scope["auth_error"]
MiddlewareAuthError(cred) ==
    CASE cred.kind = "bad_header" -> "exception"
      [] cred.kind = "none" -> "no_token"
      [] GetUserFromToken(cred) = Anonymous -> "invalid_token"
      [] OTHER -> None

\* JWTAuthMiddleware.__call__: scope["user"]
MiddlewareUser(cred) ==
    IF cred.kind \in {"bad_header", "none"} THEN Anonymous ELSE GetUserFromToken(cred)

\* The two transports of a handshake, lines 28-55.
\* A token is the text of a JWT: one signed for u1, one signed for u2, one that
\* does not decode.
Tokens == {"tok_u1", "tok_u2", "tok_junk"}

\* The sec-websocket-protocol header, [form, token]:
\*   absent       no such header
\*   undecodable  bytes that are not valid UTF-8
\*   bearer       "Bearer " followed by token, which may be the empty string
\*   long         a value of more than 50 characters without the prefix; token
\*                stands for the whole value
\*   short        any other value, the empty one included
Headers ==
    [form : {"absent", "undecodable", "short"}, token : {None}]
    \cup [form : {"bearer"}, token : Tokens \cup {""}]
    \cup [form : {"long"}, token : Tokens]

\* The values of the token parameter of the query string, in order; parse_qs
\* drops blank values.
Queries == {<<>>} \cup {<<a>> : a \in Tokens} \cup {<<a, b>> : a, b \in Tokens}

\* (mutant) only a Bearer-prefixed header value is taken from the header
SubprotocolTokenBearerOnly(header) ==
    IF header.form = "bearer" THEN header.token ELSE None

\* lines 34-47: the token taken from the header
SubprotocolToken(header) ==
    CASE header.form = "bearer" -> header.token
      [] header.form = "long" -> header.token
      [] OTHER -> None

\* lines 50-55: (qs.get("token") or [None])[0]
QueryToken(query) == IF query = <<>> THEN None ELSE query[1]

\* lines 34-55: the header's token unless it is empty, else the query's
ExtractToken(header, query) ==
    IF SubprotocolToken(header) \notin {None, ""}
    THEN SubprotocolToken(header)
    ELSE QueryToken(query)

\* What decoding a token gives (_get_user_from_token, lines 84-98)
TokenCred(token) ==
    CASE token = "tok_u1" -> [kind |-> "valid", uid |-> "u1"]
      [] token = "tok_u2" -> [kind |-> "valid", uid |-> "u2"]
      [] OTHER -> [kind |-> "malformed", uid |-> None]

\* lines 28-72: the credential the handshake amounts to.  Decoding the header
\* (line 34) raises on bytes that are not UTF-8, before the query is read.
HandshakeCred(header, query) ==
    IF header.form = "undecodable" THEN [kind |-> "bad_header", uid |-> None]
    ELSE IF ExtractToken(header, query) = None THEN NoCred
    ELSE TokenCred(ExtractToken(header, query))

\* Whether _get_user_from_token is called (line 63)
LooksUpUser(header, query) ==
    header.form # "undecodable" /\ ExtractToken(header, query) # None

-----------------------------------------------------------------------------
(* chat/consumers.py: helpers                                              *)

\* The User row of id u, and the FarmerMessage row of id t (or that there is
\* none).
UserRow(u) ==
    [id |-> u, phone_number |-> phone_number(u), is_farmer |-> is_farmer(u), is_staff |-> is_staff(u)]

NoThread == [exists |-> FALSE, farmer_phone |-> None, assigned_to_id |-> None]

ThreadRow(t) ==
    IF t \in Threads
    THEN [exists |-> TRUE, farmer_phone |-> farmer_phone(t), assigned_to_id |-> assigned_to[t]]
    ELSE NoThread

\* (mutant) the phone match granted to any user, farmer or not
IsParticipantRowAnyPhone(user, message) ==
    IF ~message.exists THEN FALSE
    ELSE \/ user.phone_number = message.farmer_phone
         \/ message.assigned_to_id = user.id
         \/ user.is_staff

\* ChatConsumer._is_participant, lines 290-315, on the rows it reads
IsParticipantRow(user, message) ==
    IF ~message.exists THEN FALSE
    ELSE \/ user.is_farmer /\ user.phone_number = message.farmer_phone
         \/ message.assigned_to_id = user.id
         \/ user.is_staff

\* ChatConsumer._is_participant for user u on the thread of the route
IsParticipant(u, t) == IsParticipantRow(UserRow(u), ThreadRow(t))

\* An inner dict of active_channels is an insertion-ordered sequence of
\* <<user_id, channel_name>> pairs.
Keys(d) == {d[i][1] : i \in 1..Len(d)}

Values(d) == {d[i][2] : i \in 1..Len(d)}

\* d[k] = v
DictSet(d, k, v) ==
    IF k \in Keys(d)
    THEN [i \in 1..Len(d) |-> IF d[i][1] = k THEN <<k, v>> ELSE d[i]]
    ELSE Append(d, <<k, v>>)

\* d.pop(k, None)
DictPop(d, k) == SelectSeq(d, LAMBDA p : p[1] # k)

\* (mutant) the check-then-create of lines 85-86 done without the check: the
\* thread's dict is made anew at every registration
RegisterFresh(reg, t, u, ch) ==
    [x \in DOMAIN reg \cup {t} |-> IF x = t THEN <<<<u, ch>>>> ELSE reg[x]]

\* connect, lines 85-87
Register(reg, t, u, ch) ==
    LET inner == IF t \in DOMAIN reg THEN reg[t] ELSE <<>>
    IN  [x \in DOMAIN reg \cup {t} |-> IF x = t THEN DictSet(inner, u, ch) ELSE reg[x]]

\* (mutant) disconnect dropping the thread's whole dict
DeregisterDropThread(reg, t, u) ==
    IF t \in DOMAIN reg THEN [x \in DOMAIN reg \ {t} |-> reg[x]] ELSE reg

\* disconnect, lines 104-107
Deregister(reg, t, u) ==
    IF t \in DOMAIN reg
    THEN LET inner == DictPop(reg[t], u)
         IN  IF inner = <<>>
             THEN [x \in DOMAIN reg \ {t} |-> reg[x]]
             ELSE [reg EXCEPT ![t] = inner]
    ELSE reg

\* (mutant) the lookup without its filter: every entry of the thread
OtherChannelsUnfiltered(reg, t, u) == IF t \in DOMAIN reg THEN reg[t] ELSE <<>>

\* (mutant) the lookup over the dict of every thread
OtherChannelsAllThreads(reg, t, u) ==
    LET at(x) == IF x \in DOMAIN reg THEN reg[x] ELSE <<>>
    IN  SelectSeq(at(7) \o at(8), LAMBDA p : p[1] # u)

\* _send_to_other_participant, lines 206-209: the peers' entries, in dict order
OtherChannels(reg, t, u) ==
    LET thread_channels == IF t \in DOMAIN reg THEN reg[t] ELSE <<>>
    IN  SelectSeq(thread_channels, LAMBDA p : p[1] # u)

\* gova_pp.ChatMedia rows: id -> file.url
Media == {"m1"}

MediaUrl(m) == "/media/m1"

\* _get_media_by_id and lines 149-155: the stored url, or None
LookupMediaUrl(m) == IF m \in Media THEN MediaUrl(m) ELSE None

\* The frames and transport events a client sees: accept, close, JSON frames.
BaseFrame ==
    [type |-> None, code |-> None, reason |-> None, close_code |-> 0, id |-> 0,
     text |-> None, sender |-> None, media_id |-> None, media_url |-> None,
     status |-> None]

AcceptEvent == [BaseFrame EXCEPT !.type = "accept"]

CloseEvent(close_code) == [BaseFrame EXCEPT !.type = "close", !.close_code = close_code]

\* connect, lines 45-53
AuthErrorFrame(auth_error) ==
    [BaseFrame EXCEPT !.type = "error", !.code = "auth_failed", !.reason = auth_error]

\* connect, lines 68-76
ForbiddenFrame == [BaseFrame EXCEPT !.type = "error", !.code = "forbidden"]

\* receive, lines 125-131
MessageData(id, text, sender) ==
    [BaseFrame EXCEPT !.type = "message_new", !.id = id, !.text = text, !.sender = sender]

\* (mutant) the acknowledgment with the status the upload path once used
MediaAckUploaded(media_id, id) ==
    [BaseFrame EXCEPT !.media_id = media_id, !.status = "uploaded", !.id = id]

\* receive, lines 163-168
MediaAck(media_id, id) ==
    [BaseFrame EXCEPT !.media_id = media_id, !.status = "received", !.id = id]

\* receive, lines 173-185
MediaMessageData(id, caption, media_id, media_url, sender) ==
    [BaseFrame EXCEPT !.type = "message_new", !.id = id, !.text = caption,
                      !.media_id = media_id, !.media_url = media_url, !.sender = sender]

\* receive, lines 189-192
NoMediaIdFrame == [BaseFrame EXCEPT !.code = "No media_id provided"]

\* broadcast, line 237
TypingFrame(event, user) == [BaseFrame EXCEPT !.type = event, !.sender = user]

\* AuthenticationFailure / Forbidden close codes, lines 56 and 79
CloseAuthFailed == 4401

CloseForbidden == 4403

-----------------------------------------------------------------------------
(* State                                                                   *)
(*   active_channels  ChatConsumer.active_channels: thread_id -> inner dict *)
(*   pc        where each connection's consumer stands (the await it is at) *)
(*   scope     the connection scope: route thread_id, user, auth_error and  *)
(*             the credential the handshake carried                         *)
(*   outbound  what the client of each connection has been sent, in order   *)
(*   channel   the channel layer's queue of each channel_name               *)
(*   groups    the channel layer's groups: <<thread_id, channel_name>>      *)
(*   replies   the GovernmentReply rows, in creation order                  *)
(*   local     the running handler's local variables                        *)
(*   log       what _send_to_other_participant has logged                   *)
(*   nframes   inbound frames so far                                        *)
(*   probe     the last call of a function taken alone: its arguments and   *)
(*             what it returned                                             *)
(*   assigned_to  FarmerMessage.assigned_to_id of each thread row           *)
(*   ecop      the tables of the ecop app and the last response of its views *)

NoLocal == [message |-> BaseFrame, others |-> <<>>, i |-> 0]

NoScope == [thread_id |-> 0, user |-> Anonymous, auth_error |-> None, cred |-> NoCred]

NoUserRow == [id |-> None, phone_number |-> None, is_farmer |-> FALSE, is_staff |-> FALSE]

NoPayload == [uid |-> None, user_id |-> None]

NoProbe == [fn |-> None, user |-> NoUserRow, message |-> NoThread, payload |-> NoPayload, out |-> None]

\* ecop.EcopGroup rows: id -> founder; the users that carry the
\* is_lead_farmer flag; the farmers that ask to join.
EcopGroups == {"g1", "g2"}

founder(g) == IF g = "g1" THEN "u1" ELSE "u2"

is_lead_farmer(u) == u \in {"u1", "u2"}

Farmers == {"u3", "u4"}

NoResponse == [view |-> None, user |-> None, status_code |-> 0]

\* No join request yet; each founder is a member of their group (the rows
\* ecop's tests start from).
NoEcop ==
    [join_requests |-> [p \in EcopGroups \X Farmers |-> "none"],
     members |-> {<<g, founder(g)>> : g \in EcopGroups},
     response |-> NoResponse]

Init ==
    /\ active_channels = <<>>
    /\ pc = [c \in Conns |-> "idle"]
    /\ scope = [c \in Conns |-> NoScope]
    /\ outbound = [c \in Conns |-> <<>>]
    /\ channel = [c \in Conns |-> <<>>]
    /\ groups = {}
    /\ replies = <<>>
    /\ local = [c \in Conns |-> NoLocal]
    /\ log = {}
    /\ nframes = 0
    /\ probe = NoProbe
    /\ assigned_to = [t \in Threads |-> assigned_to_id(t)]
    /\ ecop = NoEcop

\* Connections are opened in the order of their names.
Earlier(c) == {d \in Conns : \E i \in 1..3 : d = <<"c1", "c2", "c3">>[i] /\ \E j \in (i+1)..3 : c = <<"c1", "c2", "c3">>[j]}

\* user.id if user.is_authenticated else "anonymous"  (lines 22 and 99)
UserId(c) == scope[c].user

Send(c, frame) == outbound' = [outbound EXCEPT ![c] = Append(@, frame)]

-----------------------------------------------------------------------------
(* The actions.  A step runs a handler from one point where it reads or    *)
(* writes state shared between connections (active_channels, the channel   *)
(* layer) to the next; the awaits in between (accept, send and close on     *)
(* the connection's own transport, the database calls) are run with it.     *)

\* (mutant) the rejection without the accept
AuthRejectNoAccept(auth_error) ==
    <<AuthErrorFrame(auth_error), CloseEvent(CloseAuthFailed)>>

\* connect, lines 33-57: accept, the auth_failed error frame, close(4401)
AuthReject(auth_error) ==
    <<AcceptEvent, AuthErrorFrame(auth_error), CloseEvent(CloseAuthFailed)>>

\* connect, lines 65-80: accept, the forbidden error frame, close(4403)
ForbidReject == <<AcceptEvent, ForbiddenFrame, CloseEvent(CloseForbidden)>>

\* (mutant) connect without its is_authenticated check: every handshake goes
\* on to _is_participant
ConnectNoAuthCheck(c, t, cred) ==
    /\ pc[c] = "idle"
    /\ \A d \in Earlier(c) : pc[d] # "idle"
    /\ scope' = [scope EXCEPT ![c] = [thread_id |-> t, user |-> MiddlewareUser(cred),
                                      auth_error |-> MiddlewareAuthError(cred), cred |-> cred]]
    /\ pc' = [pc EXCEPT ![c] = "authz"]
    /\ UNCHANGED <<active_channels, outbound, channel, groups, replies, local, log, nframes, probe, assigned_to, ecop>>

\* JWTAuthMiddleware.__call__, then ChatConsumer.connect up to line 60: the
\* handshake of connection c to /ws/chat/<t>/ carrying cred.  The middleware
\* fills the scope; connect rejects an anonymous user and otherwise awaits
\* _is_participant.
Connect(c, t, cred) ==
    /\ pc[c] = "idle"
    /\ \A d \in Earlier(c) : pc[d] # "idle"
    /\ scope' = [scope EXCEPT ![c] = [thread_id |-> t, user |-> MiddlewareUser(cred),
                                      auth_error |-> MiddlewareAuthError(cred), cred |-> cred]]
    /\ IF MiddlewareUser(cred) = Anonymous
       THEN /\ outbound' = [outbound EXCEPT ![c] = AuthReject(MiddlewareAuthError(cred))]
            /\ pc' = [pc EXCEPT ![c] = "closing"]
       ELSE /\ pc' = [pc EXCEPT ![c] = "authz"]
            /\ UNCHANGED outbound
    /\ UNCHANGED <<active_channels, channel, groups, replies, local, log, nframes, probe, assigned_to, ecop>>

\* (mutant) connect registering the connection before it looks at the answer
\* of _is_participant
AuthorizeRegisterFirst(c) ==
    /\ pc[c] = "authz"
    /\ active_channels' = Register(active_channels, scope[c].thread_id, UserId(c), c)
    /\ IF IsParticipant(scope[c].user, scope[c].thread_id)
       THEN /\ groups' = groups \cup {<<scope[c].thread_id, c>>}
            /\ outbound' = [outbound EXCEPT ![c] = <<AcceptEvent>>]
            /\ pc' = [pc EXCEPT ![c] = "open"]
       ELSE /\ outbound' = [outbound EXCEPT ![c] = ForbidReject]
            /\ pc' = [pc EXCEPT ![c] = "closing"]
            /\ UNCHANGED groups
    /\ UNCHANGED <<scope, channel, replies, local, log, nframes, probe, assigned_to, ecop>>

\* connect, lines 60-94: _is_participant has answered.  A participant is
\* registered in active_channels, added to the thread's group and accepted;
\* anyone else is rejected as forbidden.
Authorize(c) ==
    /\ pc[c] = "authz"
    /\ IF IsParticipant(scope[c].user, scope[c].thread_id)
       THEN /\ active_channels' = Register(active_channels, scope[c].thread_id, UserId(c), c)
            /\ groups' = groups \cup {<<scope[c].thread_id, c>>}
            /\ outbound' = [outbound EXCEPT ![c] = <<AcceptEvent>>]
            /\ pc' = [pc EXCEPT ![c] = "open"]
       ELSE /\ outbound' = [outbound EXCEPT ![c] = ForbidReject]
            /\ pc' = [pc EXCEPT ![c] = "closing"]
            /\ UNCHANGED <<active_channels, groups>>
    /\ UNCHANGED <<scope, channel, replies, local, log, nframes, probe, assigned_to, ecop>>

\* disconnect, lines 97-111: websocket.disconnect reaches an idle consumer
\* (the client went away, or the server completed the close connect asked
\* for).  The (thread, user) key is removed, the group left, and the consumer
\* instance with its scope is gone: "closed" after an open session, "refused"
\* after a rejection.
Disconnect(c) ==
    /\ pc[c] \in {"open", "closing"}
    /\ active_channels' = Deregister(active_channels, scope[c].thread_id, UserId(c))
    /\ groups' = groups \ {<<scope[c].thread_id, c>>}
    /\ pc' = [pc EXCEPT ![c] = IF pc[c] = "open" THEN "closed" ELSE "refused"]
    /\ scope' = [scope EXCEPT ![c] = NoScope]
    /\ outbound' = [outbound EXCEPT ![c] = <<>>]
    /\ UNCHANGED <<channel, replies, local, log, nframes, probe, assigned_to, ecop>>

\* receive, line 136: the two type tags of the media branch
MediaTypes == {"media_data", "media_reference"}

\* Inbound frames.  type "garbage" is text that is not JSON, "nonobject" is
\* JSON that is not an object (a number, a list); every other one is a JSON
\* object with that "type".
InFrames ==
    {[BaseFrame EXCEPT !.type = k] : k \in {"garbage", "nonobject", "typing_start", "typing_stop", "unknown"}}
    \cup {[BaseFrame EXCEPT !.type = "message_new", !.text = x] : x \in Texts}
    \cup {[BaseFrame EXCEPT !.type = k, !.text = "", !.media_id = m, !.media_url = u] :
            k \in MediaTypes, m \in {None, "m1"}, u \in {None, "/cdn/m1"}}

\* An exception leaves a handler: the consumer instance ends without running
\* disconnect.  JWTAuthMiddleware.__call__ (lines 74-80) catches it, makes the
\* scope's user anonymous and starts the inner application again: a fresh
\* consumer on the same transport, on which connect never runs.
Raise(c) ==
    /\ pc' = [pc EXCEPT ![c] = "zombie"]
    /\ scope' = [scope EXCEPT ![c].user = Anonymous, ![c].auth_error = "exception"]
    /\ local' = [local EXCEPT ![c] = NoLocal]

\* (mutant) the fan-out over every entry of the thread, the sender's included
StartFanoutIncludingSender(c, message_data) ==
    LET other_channels == IF scope[c].thread_id \in DOMAIN active_channels
                          THEN active_channels[scope[c].thread_id] ELSE <<>>
    IN  IF other_channels # <<>>
        THEN /\ pc' = [pc EXCEPT ![c] = "fanout"]
             /\ local' = [local EXCEPT ![c] = [message |-> message_data, others |-> other_channels, i |-> 1]]
             /\ log' = log \cup {[event |-> "sending", id |-> message_data.id, to |-> Values(other_channels)]}
        ELSE /\ UNCHANGED <<pc, local>>
             /\ log' = log \cup {[event |-> "no_others", id |-> message_data.id, to |-> {}]}

\* (mutant) the fan-out falling back to the sender's own channel when there
\* is no peer
StartFanoutEchoWhenAlone(c, message_data) ==
    LET other_channels == OtherChannels(active_channels, scope[c].thread_id, scope[c].user)
        targets == IF other_channels # <<>> THEN other_channels ELSE <<<<scope[c].user, c>>>>
    IN  /\ pc' = [pc EXCEPT ![c] = "fanout"]
        /\ local' = [local EXCEPT ![c] = [message |-> message_data, others |-> targets, i |-> 1]]
        /\ log' = log \cup {[event |-> "sending", id |-> message_data.id, to |-> Values(targets)]}

\* _send_to_other_participant up to its first await (lines 205-215): the
\* snapshot of the peers, then the loop over it.
StartFanout(c, message_data) ==
    LET other_channels == OtherChannels(active_channels, scope[c].thread_id, scope[c].user)
    IN  IF other_channels # <<>>
        THEN /\ pc' = [pc EXCEPT ![c] = "fanout"]
             /\ local' = [local EXCEPT ![c] = [message |-> message_data, others |-> other_channels, i |-> 1]]
             /\ log' = log \cup {[event |-> "sending", id |-> message_data.id, to |-> Values(other_channels)]}
        ELSE /\ UNCHANGED <<pc, local>>
             /\ log' = log \cup {[event |-> "no_others", id |-> message_data.id, to |-> {}]}

\* _create_message, lines 327-334: the row it stores
NewReply(c, text) == [message_id |-> scope[c].thread_id, replied_by |-> scope[c].user, reply_text |-> text]

\* (mutant) _create_message handing back a row it has not stored
CreateMessageNotStored(c, text) == UNCHANGED replies

\* _create_message, lines 327-334: GovernmentReply.objects.create
CreateMessage(c, text) == replies' = Append(replies, NewReply(c, text))

\* (mutant) the else branch answering the sender with an error frame
UnknownTypeAnswered(c) ==
    /\ Send(c, [BaseFrame EXCEPT !.type = "error", !.code = "unknown_type"])
    /\ UNCHANGED <<pc, scope, channel, replies, local, log>>

\* receive, lines 200-201: a type tag of no branch is logged, nothing else
UnknownType(c) == UNCHANGED <<pc, scope, outbound, channel, replies, local, log>>

\* receive, lines 113-201: one inbound frame.  db_ok tells whether
\* _create_message stores its row or raises; nothing in receive catches that.
Receive(c, frame, db_ok) ==
    /\ pc[c] = "open"
    /\ nframes' = nframes + 1
    /\ LET id == Len(replies) + 1
           media_url == IF frame.media_url # None THEN frame.media_url ELSE LookupMediaUrl(frame.media_id)
       IN
       CASE frame.type = "garbage" ->
              UNCHANGED <<pc, scope, outbound, channel, replies, local, log>>
         [] frame.type = "nonobject" ->
              /\ Raise(c)
              /\ UNCHANGED <<outbound, channel, replies, log>>
         [] frame.type = "message_new" /\ db_ok ->
              /\ CreateMessage(c, frame.text)
              /\ StartFanout(c, MessageData(id, frame.text, scope[c].user))
              /\ UNCHANGED <<scope, outbound, channel>>
         [] frame.type \in MediaTypes /\ frame.media_id = None ->
              /\ Send(c, NoMediaIdFrame)
              /\ UNCHANGED <<pc, scope, channel, replies, local, log>>
         [] frame.type \in MediaTypes /\ frame.media_id # None /\ db_ok ->
              /\ CreateMessage(c, frame.text)
              /\ Send(c, MediaAck(frame.media_id, id))
              /\ StartFanout(c, MediaMessageData(id, frame.text, frame.media_id, media_url, scope[c].user))
              /\ UNCHANGED <<scope, channel>>
         [] (frame.type = "message_new" \/ (frame.type \in MediaTypes /\ frame.media_id # None)) /\ ~db_ok ->
              /\ Raise(c)
              /\ UNCHANGED <<outbound, channel, replies, log>>
         [] frame.type \in {"typing_start", "typing_stop"} ->
              /\ channel' = [h \in Conns |->
                               IF <<scope[c].thread_id, h>> \in groups
                               THEN Append(channel[h], [BaseFrame EXCEPT !.type = "broadcast",
                                                           !.status = frame.type, !.sender = scope[c].user])
                               ELSE channel[h]]
              /\ UNCHANGED <<pc, scope, outbound, replies, local, log>>
         [] OTHER ->
              UnknownType(c)
    /\ UNCHANGED <<active_channels, groups, probe, assigned_to, ecop>>

\* (mutant) a turn of the loop that queues the event twice
PushTwice(c, delivered) ==
    /\ pc[c] = "fanout"
    /\ LET target == local[c].others[local[c].i]
           last == local[c].i = Len(local[c].others)
       IN  /\ IF delivered
              THEN channel' = [channel EXCEPT ![target[2]] = Append(Append(@, local[c].message), local[c].message)]
              ELSE UNCHANGED channel
           /\ log' = log \cup {[event |-> IF delivered THEN "sent" ELSE "failed",
                                id |-> local[c].message.id, to |-> {target[2]}]}
           /\ pc' = [pc EXCEPT ![c] = IF last THEN "open" ELSE "fanout"]
           /\ local' = [local EXCEPT ![c] = IF last THEN NoLocal ELSE [@ EXCEPT !.i = @ + 1]]
    /\ UNCHANGED <<active_channels, scope, outbound, groups, replies, nframes, probe, assigned_to, ecop>>

\* (mutant) the try around the whole loop: the first failure ends the fan-out
PushAbortOnFailure(c, delivered) ==
    /\ pc[c] = "fanout"
    /\ LET target == local[c].others[local[c].i]
           last == local[c].i = Len(local[c].others) \/ ~delivered
       IN  /\ IF delivered
              THEN channel' = [channel EXCEPT ![target[2]] = Append(@, local[c].message)]
              ELSE UNCHANGED channel
           /\ log' = log \cup {[event |-> IF delivered THEN "sent" ELSE "failed",
                                id |-> local[c].message.id, to |-> {target[2]}]}
           /\ pc' = [pc EXCEPT ![c] = IF last THEN "open" ELSE "fanout"]
           /\ local' = [local EXCEPT ![c] = IF last THEN NoLocal ELSE [@ EXCEPT !.i = @ + 1]]
    /\ UNCHANGED <<active_channels, scope, outbound, groups, replies, nframes, probe, assigned_to, ecop>>

\* lines 213-224, one turn of the loop: channel_layer.send to the next peer of
\* the snapshot either queues the direct_message event on that channel or
\* raises (ChannelFull), which is caught and logged.
Push(c, delivered) ==
    /\ pc[c] = "fanout"
    /\ LET target == local[c].others[local[c].i]
           last == local[c].i = Len(local[c].others)
       IN  /\ IF delivered
              THEN channel' = [channel EXCEPT ![target[2]] = Append(@, local[c].message)]
              ELSE UNCHANGED channel
           /\ log' = log \cup {[event |-> IF delivered THEN "sent" ELSE "failed",
                                id |-> local[c].message.id, to |-> {target[2]}]}
           /\ pc' = [pc EXCEPT ![c] = IF last THEN "open" ELSE "fanout"]
           /\ local' = [local EXCEPT ![c] = IF last THEN NoLocal ELSE [@ EXCEPT !.i = @ + 1]]
    /\ UNCHANGED <<active_channels, scope, outbound, groups, replies, nframes, probe, assigned_to, ecop>>

\* media_uploaded, lines 273-281: the acknowledgment of an upload
UploadAck(media_id, media_url, uploaded_by) ==
    [BaseFrame EXCEPT !.type = "media_ack", !.media_id = media_id, !.status = "received",
                      !.media_url = media_url, !.sender = uploaded_by]

\* What the handler of an event writes to the client: direct_message sends
\* the message as it is (line 230), broadcast the typing frame (line 237),
\* media_uploaded the acknowledgment (line 284).
ClientFrame(event) ==
    CASE event.type = "broadcast" -> TypingFrame(event.status, event.sender)
      [] event.type = "media_uploaded" -> UploadAck(event.media_id, event.media_url, event.sender)
      [] OTHER -> event

\* (mutant) a channel read newest event first
DeliverNewest(c) ==
    /\ pc[c] = "open"
    /\ channel[c] # <<>>
    /\ LET event == channel[c][Len(channel[c])]
       IN  Send(c, ClientFrame(event))
    /\ channel' = [channel EXCEPT ![c] = SubSeq(@, 1, Len(@) - 1)]
    /\ UNCHANGED <<active_channels, pc, scope, groups, replies, local, log, nframes, probe, assigned_to, ecop>>

\* direct_message (line 230), broadcast (lines 234-237) and media_uploaded
\* (lines 263-285): an idle consumer takes the next event of its channel and
\* writes it to its client.
Deliver(c) ==
    /\ pc[c] = "open"
    /\ channel[c] # <<>>
    /\ LET event == Head(channel[c])
       IN  Send(c, ClientFrame(event))
    /\ channel' = [channel EXCEPT ![c] = Tail(@)]
    /\ UNCHANGED <<active_channels, pc, scope, groups, replies, local, log, nframes, probe, assigned_to, ecop>>

\* The consumer that the middleware started after an exception has no
\* thread_id attribute: connect never ran on it.  receive on it returns at
\* line 118 for text that is not JSON and raises at line 121 for anything
\* else; this time the exception reaches the server, which closes the
\* connection.
ZombieReceive(c, frame) ==
    /\ pc[c] = "zombie"
    /\ IF frame.type = "garbage"
       THEN UNCHANGED <<pc, scope, outbound>>
       ELSE /\ pc' = [pc EXCEPT ![c] = "dead"]
            /\ scope' = [scope EXCEPT ![c] = NoScope]
            /\ outbound' = [outbound EXCEPT ![c] = <<>>]
    /\ UNCHANGED <<active_channels, channel, groups, replies, local, log, nframes, probe, assigned_to, ecop>>

\* websocket.disconnect on that consumer: disconnect raises at line 101,
\* before it touches active_channels.
ZombieDisconnect(c) ==
    /\ pc[c] = "zombie"
    /\ pc' = [pc EXCEPT ![c] = "dead"]
    /\ scope' = [scope EXCEPT ![c] = NoScope]
    /\ outbound' = [outbound EXCEPT ![c] = <<>>]
    /\ UNCHANGED <<active_channels, channel, groups, replies, local, log, nframes, probe, assigned_to, ecop>>

-----------------------------------------------------------------------------

\* The system with its inputs drawn from the given sets, and at most
\* max_frames inbound frames handled by receive of a connected consumer.
NextOver(conns, routes, creds, frames, max_frames) ==
    \E c \in conns :
        \/ \E t \in routes, cred \in creds : Connect(c, t, cred)
        \/ Authorize(c)
        \/ Disconnect(c)
        \/ \E frame \in frames, db_ok \in BOOLEAN : nframes < max_frames /\ Receive(c, frame, db_ok)
        \/ \E delivered \in BOOLEAN : Push(c, delivered)
        \/ Deliver(c)
        \/ \E frame \in frames : ZombieReceive(c, frame)
        \/ ZombieDisconnect(c)

\* Three connections, every route, a credential of each outcome of the
\* middleware, every frame.
MainCreds == [kind : {"none", "expired", "bad_header"}, uid : {None}] \cup [kind : {"valid"}, uid : Users]

Next == NextOver(Conns, RouteIds, MainCreds, InFrames, MaxFrames)

Spec == Init /\ [][Next]_vars

\* Two connections, every credential.
NextAuth == NextOver({"c1", "c2"}, RouteIds, Creds, InFrames, MaxFrames)

SpecAuth == Init /\ [][NextAuth]_vars

\* chat/test_consumer.py, line 14: the greeting, and line 26: the echo
TestGreeting == [BaseFrame EXCEPT !.type = "message", !.text = "Connected to test WebSocket!"]

TestEcho(text_data) == [BaseFrame EXCEPT !.type = "message", !.text = text_data, !.status = "Echo"]

\* (mutant) the handshake to /ws/test/ handed, with the bypass, to the chat
\* consumer of thread 7, which takes it in
ConnectTestAsChat(c, cred) ==
    /\ pc[c] = "idle"
    /\ \A d \in Earlier(c) : pc[d] # "idle"
    /\ scope' = [scope EXCEPT ![c] = [thread_id |-> 7, user |-> Anonymous, auth_error |-> None, cred |-> cred]]
    /\ active_channels' = Register(active_channels, 7, Anonymous, c)
    /\ outbound' = [outbound EXCEPT ![c] = <<AcceptEvent>>]
    /\ pc' = [pc EXCEPT ![c] = "open"]
    /\ UNCHANGED <<channel, groups, replies, local, log, nframes, probe, assigned_to, ecop>>

\* The handshake of connection c to /ws/test/.  JWTAuthMiddleware.__call__,
\* lines 21-26: the path is the test path, the user is AnonymousUser whatever
\* the handshake carries, and no token is looked at.  asgi.py line 34 routes
\* the path to TestConsumer, whose connect (test_consumer.py lines 8-18)
\* accepts and sends the greeting.
ConnectTest(c, cred) ==
    /\ pc[c] = "idle"
    /\ \A d \in Earlier(c) : pc[d] # "idle"
    /\ scope' = [scope EXCEPT ![c] = [thread_id |-> 0, user |-> Anonymous, auth_error |-> None, cred |-> cred]]
    /\ outbound' = [outbound EXCEPT ![c] = <<AcceptEvent, TestGreeting>>]
    /\ pc' = [pc EXCEPT ![c] = "test"]
    /\ UNCHANGED <<active_channels, channel, groups, replies, local, log, nframes, probe, assigned_to, ecop>>

\* TestConsumer.receive, lines 23-31: the text comes back
TestReceive(c, text_data) ==
    /\ pc[c] = "test"
    /\ nframes' = nframes + 1
    /\ Send(c, TestEcho(text_data))
    /\ UNCHANGED <<active_channels, pc, scope, channel, groups, replies, local, log, probe, assigned_to, ecop>>

\* TestConsumer.disconnect, lines 20-21: a log line
TestDisconnect(c) ==
    /\ pc[c] = "test"
    /\ pc' = [pc EXCEPT ![c] = "closed"]
    /\ scope' = [scope EXCEPT ![c] = NoScope]
    /\ outbound' = [outbound EXCEPT ![c] = <<>>]
    /\ UNCHANGED <<active_channels, channel, groups, replies, local, log, nframes, probe, assigned_to, ecop>>

\* Two connections, each to a chat thread or to the test target.
NextTest ==
    \/ NextOver({"c1", "c2"}, RouteIds, MainCreds, InFrames, MaxFrames)
    \/ \E c \in {"c1", "c2"} :
          \/ \E cred \in MainCreds : ConnectTest(c, cred)
          \/ \E text_data \in Texts : nframes < MaxFrames /\ TestReceive(c, text_data)
          \/ TestDisconnect(c)

SpecTest == Init /\ [][NextTest]_vars

-----------------------------------------------------------------------------
(* ecop: join requests.  p is a <<group, farmer>> pair; unique_together     *)
(* allows one EcopJoinRequest row and one EcopGroupMember row per pair.    *)

EcopResponse(view, user, status_code) == [view |-> view, user |-> user, status_code |-> status_code]

\* signals.py, lines 42-66: the post_save receiver of EcopJoinRequest.  For
\* a status other than pending it logs the notification and then runs
\* update(_notified=True) on a model without such a field, which raises.
HandleJoinRequestResponse(status) == IF status # "pending" THEN "FieldError" ELSE None

\* EcopJoinRequest.save, models.py lines 131-145: the row is written, the
\* post_save receivers run, then an approved request gets its member row by
\* get_or_create.  The result is the tables and the exception raised, if any.
SaveJoinRequest(db, p, status) ==
    LET saved == [db EXCEPT !.join_requests[p] = status]
        raised == HandleJoinRequestResponse(status)
    IN  IF raised # None THEN [db |-> saved, raised |-> raised]
        ELSE IF status = "approved"
             THEN [db |-> [saved EXCEPT !.members = @ \cup {p}], raised |-> None]
             ELSE [db |-> saved, raised |-> None]

\* EcopGroupMember.objects.create under unique_together (models.py lines
\* 78-79): a second row for the pair is refused.
CreateMember(db, p) ==
    IF p \in db.members
    THEN [db |-> db, raised |-> "IntegrityError"]
    ELSE [db |-> [db EXCEPT !.members = @ \cup {p}], raised |-> None]

\* JoinGroupRequestView.post, views.py lines 104-160
JoinGroupRequest(user, group) ==
    /\ ecop' = IF <<group, user>> \in ecop.members
                  \/ ecop.join_requests[<<group, user>>] = "pending"
               THEN [ecop EXCEPT !.response = EcopResponse("join", user, 400)]
               ELSE IF ecop.join_requests[<<group, user>>] # "none"
               THEN [ecop EXCEPT !.response = EcopResponse("join", user, 500)]
               ELSE [ecop EXCEPT !.join_requests[<<group, user>>] = "pending",
                                 !.response = EcopResponse("join", user, 201)]
    /\ UNCHANGED <<active_channels, pc, scope, outbound, channel, groups, replies, local, log, nframes,
                   probe, assigned_to>>

\* RespondJoinRequestView.post, views.py lines 185-234, behind IsLeadFarmer
\* (permissions.py lines 8-9).  The serializer takes pending requests only;
\* an exception inside transaction.atomic undoes every write of the block
\* and the request ends as a server error.
RespondJoinRequest(user, p, approve) ==
    /\ ecop' =
          IF ~is_lead_farmer(user)
          THEN [ecop EXCEPT !.response = EcopResponse("respond", user, 403)]
          ELSE IF ecop.join_requests[p] # "pending"
          THEN [ecop EXCEPT !.response = EcopResponse("respond", user, 400)]
          ELSE IF founder(p[1]) # user
          THEN [ecop EXCEPT !.response = EcopResponse("respond", user, 403)]
          ELSE LET saved == SaveJoinRequest(ecop, p, IF approve THEN "approved" ELSE "rejected")
                   created == IF saved.raised = None /\ approve THEN CreateMember(saved.db, p) ELSE saved
               IN  IF created.raised # None
                   THEN [ecop EXCEPT !.response = EcopResponse("respond", user, 500)]
                   ELSE [created.db EXCEPT !.response = EcopResponse("respond", user, 200)]
    /\ UNCHANGED <<active_channels, pc, scope, outbound, channel, groups, replies, local, log, nframes,
                   probe, assigned_to>>

\* Farmers ask to join the two groups; any user answers any request.
NextEcop ==
    \/ \E user \in Farmers, group \in EcopGroups : JoinGroupRequest(user, group)
    \/ \E user \in Users, p \in EcopGroups \X Farmers, approve \in BOOLEAN : RespondJoinRequest(user, p, approve)

SpecEcop == Init /\ [][NextEcop]_vars

-----------------------------------------------------------------------------
\* gova_pp/views.py, message_detail, lines 217-221, behind
\* government_login_required (lines 36-46): a staff user takes the thread
\* over.
Assign(t, u) ==
    /\ is_staff(u)
    /\ assigned_to' = [assigned_to EXCEPT ![t] = u]
    /\ UNCHANGED <<active_channels, pc, scope, outbound, channel, groups, replies, local, log, nframes,
                   probe, ecop>>

\* Two connections, and the dashboard through which threads are reassigned.
NextAssign ==
    \/ NextOver({"c1", "c2"}, RouteIds, MainCreds, InFrames, MaxFrames)
    \/ \E t \in Threads, u \in Users : Assign(t, u)

SpecAssign == Init /\ [][NextAssign]_vars

\* gova_pp/chat_api.py, handle_multipart_upload, lines 564-590: who may add
\* to the thread
MayUpload(u, t) ==
    /\ t \in Threads
    /\ is_farmer(u) => farmer_phone(t) = phone_number(u)
    /\ ~is_farmer(u) => (assigned_to[t] = u \/ is_staff(u))

\* handle_multipart_upload, lines 631-641: the event sent to the group
UploadedEvent(u) ==
    [BaseFrame EXCEPT !.type = "media_uploaded", !.media_id = "m1", !.status = "uploaded",
                      !.media_url = MediaUrl("m1"), !.sender = u]

\* handle_multipart_upload, lines 521-660: user u uploads a file into thread
\* t over HTTP.  The media row is stored and the media_uploaded event is sent
\* with group_send to the group thread_<t>, that is to every consumer
\* connected on the thread.  Uploads count as inbound requests.
Upload(u, t) ==
    /\ MayUpload(u, t)
    /\ nframes' = nframes + 1
    /\ channel' = [h \in Conns |-> IF <<t, h>> \in groups
                                    THEN Append(channel[h], UploadedEvent(u))
                                    ELSE channel[h]]
    /\ UNCHANGED <<active_channels, pc, scope, outbound, groups, replies, local, log, probe, assigned_to, ecop>>

\* Two connections, and the upload endpoint.
NextUpload ==
    \/ NextOver({"c1", "c2"}, RouteIds, MainCreds, InFrames, MaxFrames)
    \/ \E u \in Users, t \in RouteIds : nframes < MaxFrames /\ Upload(u, t)

SpecUpload == Init /\ [][NextUpload]_vars

-----------------------------------------------------------------------------
(* gova_pp/consumers.py: the ChatConsumer of /ws/gova-pp/chat/<thread_id>/, *)
(* behind the same middleware.  A session of it stands at "gova".           *)

\* The group chat_<thread_id> (line 22); thread_<thread_id>, the group of
\* chat/consumers.py, is another name.
ChatGroupName(t) == 0 - t

\* verify_thread_access, lines 53-62
VerifyThreadAccess(u, t) ==
    /\ t \in Threads
    /\ IF is_farmer(u)
       THEN farmer_phone(t) = phone_number(u)
       ELSE assigned_to[t] = u \/ is_staff(u)

\* send_error, lines 281-289
GovaError(error_type) == [BaseFrame EXCEPT !.type = "error", !.code = error_type]

\* Inbound frames: text that is not JSON, an unknown type, and the two text
\* message types with a text or with none.
GovaTextTypes == {"message_new", "text_message"}

GovaFrames ==
    {[BaseFrame EXCEPT !.type = k] : k \in {"garbage", "unknown"}}
    \cup {[BaseFrame EXCEPT !.type = k, !.text = x] : k \in GovaTextTypes, x \in Texts \cup {""}}

\* connect, lines 19-42: an anonymous user is closed with 4001 and a user
\* without access to the thread with 4003, both before accept; anyone else
\* joins the group and is accepted.
GovaConnect(c, t, cred) ==
    /\ pc[c] = "idle"
    /\ \A d \in Earlier(c) : pc[d] # "idle"
    /\ scope' = [scope EXCEPT ![c] = [thread_id |-> t, user |-> MiddlewareUser(cred),
                                      auth_error |-> MiddlewareAuthError(cred), cred |-> cred]]
    /\ IF MiddlewareUser(cred) = Anonymous
       THEN /\ outbound' = [outbound EXCEPT ![c] = <<CloseEvent(4001)>>]
            /\ pc' = [pc EXCEPT ![c] = "gova_closing"]
            /\ UNCHANGED groups
       ELSE IF VerifyThreadAccess(MiddlewareUser(cred), t)
       THEN /\ groups' = groups \cup {<<ChatGroupName(t), c>>}
            /\ outbound' = [outbound EXCEPT ![c] = <<AcceptEvent>>]
            /\ pc' = [pc EXCEPT ![c] = "gova"]
       ELSE /\ outbound' = [outbound EXCEPT ![c] = <<CloseEvent(4003)>>]
            /\ pc' = [pc EXCEPT ![c] = "gova_closing"]
            /\ UNCHANGED groups
    /\ UNCHANGED <<active_channels, channel, replies, local, log, nframes, probe, assigned_to, ecop>>

\* create_message, lines 307-342: user_id is never the farmer's phone number,
\* so the row is a GovernmentReply, and the thread is assigned to the sender
\* (line 339).
GovaCreateMessage(c, text) ==
    /\ replies' = Append(replies, NewReply(c, text))
    /\ assigned_to' = [assigned_to EXCEPT ![scope[c].thread_id] = scope[c].user]

\* receive, lines 64-102, with handle_message_new (lines 229-261) and
\* handle_text_message (lines 185-220).  Both store the message and then
\* read message.text to build the group event; a GovernmentReply has
\* reply_text and no text, so the read raises, the handler's except branch
\* sends the error frame, and the group_send of lines 203 and 244 is never
\* reached.
GovaReceive(c, frame) ==
    /\ pc[c] = "gova"
    /\ nframes' = nframes + 1
    /\ CASE frame.type = "garbage" ->
              /\ Send(c, GovaError("invalid_json"))
              /\ UNCHANGED <<replies, assigned_to>>
         [] frame.type \in GovaTextTypes /\ frame.text = "" ->
              /\ Send(c, GovaError(IF frame.type = "message_new" THEN "message_error" ELSE "text_message_error"))
              /\ UNCHANGED <<replies, assigned_to>>
         [] frame.type \in GovaTextTypes /\ frame.text # "" ->
              /\ GovaCreateMessage(c, frame.text)
              /\ Send(c, GovaError(IF frame.type = "message_new" THEN "message_error" ELSE "text_message_error"))
         [] OTHER ->
              /\ Send(c, GovaError("unknown_message_type"))
              /\ UNCHANGED <<replies, assigned_to>>
    /\ UNCHANGED <<active_channels, pc, scope, channel, groups, local, log, probe, ecop>>

\* disconnect, lines 44-51
GovaDisconnect(c) ==
    /\ pc[c] \in {"gova", "gova_closing"}
    /\ groups' = groups \ {<<ChatGroupName(scope[c].thread_id), c>>}
    /\ pc' = [pc EXCEPT ![c] = IF pc[c] = "gova" THEN "closed" ELSE "refused"]
    /\ scope' = [scope EXCEPT ![c] = NoScope]
    /\ outbound' = [outbound EXCEPT ![c] = <<>>]
    /\ UNCHANGED <<active_channels, channel, replies, local, log, nframes, probe, assigned_to, ecop>>

\* Two connections to the gova-pp route exchanging up to MaxFrames frames.
NextGova ==
    \E c \in {"c1", "c2"} :
        \/ \E t \in RouteIds, cred \in MainCreds : GovaConnect(c, t, cred)
        \/ \E frame \in GovaFrames : nframes < MaxFrames /\ GovaReceive(c, frame)
        \/ GovaDisconnect(c)

SpecGova == Init /\ [][NextGova]_vars

-----------------------------------------------------------------------------
\* The functions taken alone, on every input of a bounded domain: user rows
\* and thread rows for _is_participant, decoded payloads for
\* _get_user_from_token.
UserRows ==
    [id : {"u1", "u2"}, phone_number : {"P1", "P2"}, is_farmer : BOOLEAN, is_staff : BOOLEAN]

ThreadRows ==
    {NoThread} \cup [exists : {TRUE}, farmer_phone : {"P1", "P2"}, assigned_to_id : {None, "u1", "u2"}]

Bool(b) == IF b THEN "True" ELSE "False"

CallIsParticipant(user, message) ==
    /\ probe' = [NoProbe EXCEPT !.fn = "_is_participant", !.user = user, !.message = message,
                                !.out = Bool(IsParticipantRow(user, message))]
    /\ UNCHANGED <<active_channels, pc, scope, outbound, channel, groups, replies, local, log, nframes,
                   assigned_to, ecop>>

CallGetUserFromToken(payload) ==
    /\ probe' = [NoProbe EXCEPT !.fn = "_get_user_from_token", !.payload = payload,
                                !.out = UserFromPayload(payload)]
    /\ UNCHANGED <<active_channels, pc, scope, outbound, channel, groups, replies, local, log, nframes,
                   assigned_to, ecop>>

NextCalls ==
    \/ \E user \in UserRows, message \in ThreadRows : CallIsParticipant(user, message)
    \/ \E payload \in Payloads : CallGetUserFromToken(payload)

SpecCalls == Init /\ [][NextCalls]_vars

\* JWTAuthMiddleware.__call__, lines 28-80, on a handshake alone
CallMiddleware(header, query) ==
    /\ probe' = [NoProbe EXCEPT !.fn = "__call__",
                                !.payload = [header |-> header, query |-> query],
                                !.out = [token |-> IF header.form = "undecodable" THEN None
                                                   ELSE ExtractToken(header, query),
                                         lookup |-> LooksUpUser(header, query),
                                         user |-> MiddlewareUser(HandshakeCred(header, query)),
                                         auth_error |-> MiddlewareAuthError(HandshakeCred(header, query))]]
    /\ UNCHANGED <<active_channels, pc, scope, outbound, channel, groups, replies, local, log, nframes,
                   assigned_to, ecop>>

NextHandshake == \E header \in Headers, query \in Queries : CallMiddleware(header, query)

SpecHandshake == Init /\ [][NextHandshake]_vars

\* A conversation: three connections to thread 7 by its two participants, a
\* stranger or nobody, exchanging up to MaxTalk text messages.  The event
\* loop runs every handler that is ready: a fan-out that has started makes
\* its next push, an idle consumer takes the next event of its channel, and
\* the server delivers websocket.disconnect to a consumer that asked to close.
MaxTalk == 2

TalkCreds == [kind : {"none"}, uid : {None}] \cup [kind : {"valid"}, uid : {"u1", "u2", "u4"}]

TalkFrames == {[BaseFrame EXCEPT !.type = "message_new", !.text = x] : x \in Texts}

NextTalk == NextOver(Conns, {7}, TalkCreds, TalkFrames, MaxTalk)

SpecTalk ==
    /\ Init
    /\ [][NextTalk]_vars
    /\ \A c \in Conns :
          /\ WF_vars(\E delivered \in BOOLEAN : Push(c, delivered))
          /\ WF_vars(Deliver(c))
          /\ WF_vars(pc[c] = "closing" /\ Disconnect(c))

-----------------------------------------------------------------------------
(* What the claims speak of.                                               *)

\* The entries <<user_id, channel_name>> registered under thread t.
Entries(t) == IF t \in DOMAIN active_channels
              THEN {active_channels[t][i] : i \in 1..Len(active_channels[t])}
              ELSE {}

\* Every channel_name the registry holds.
Handles == UNION {{e[2] : e \in Entries(t)} : t \in RouteIds}

\* The session of c is over.
Closed(c) == pc[c] \in {"closed", "refused", "dead"}

\* The consumer of c is connected and past accept (idle or inside receive).
Live(c) == pc[c] \in {"open", "fanout"}

\* The number of frames f of sequence q with P(f).
Count(q, P(_)) == Cardinality({i \in 1..Len(q) : P(q[i])})

-----------------------------------------------------------------------------
(* C1  Registry invariant: in every reachable state each (thread,          *)
(* principal) key of active_channels has at most one entry, and the peer   *)
(* lookup of _send_to_other_participant for a connected sender holds       *)
(* neither the sender's own channel nor any channel registered under the   *)
(* sender's principal; the same holds of every snapshot a running fan-out  *)
(* iterates over.                                                          *)
C1_RegistryInvariant ==
    /\ \A t \in DOMAIN active_channels :
         \A i, j \in 1..Len(active_channels[t]) :
            active_channels[t][i][1] = active_channels[t][j][1] => i = j
    /\ \A c \in Conns :
         Live(c) =>
            LET peers == OtherChannels(active_channels, scope[c].thread_id, scope[c].user)
            IN  /\ c \notin Values(peers)
                /\ \A e \in Entries(scope[c].thread_id) :
                      e[1] = scope[c].user => e[2] \notin Values(peers)
    /\ \A c \in Conns :
         pc[c] = "fanout" =>
            /\ c \notin Values(local[c].others)
            /\ scope[c].user \notin Keys(local[c].others)

\* A fan-out runs over a thread with two registered principals after another
\* connection has disconnected.
C1_Witness ==
    \E c, d \in Conns :
        /\ pc[c] = "fanout"
        /\ pc[d] = "closed"
        /\ Cardinality(Entries(scope[c].thread_id)) >= 2

(* C2  Every registry entry names a principal whose token verified and who *)
(* is a participant of the entry's thread, and (while its session lasts)   *)
(* the connection that wrote it carried that principal's valid token for   *)
(* that thread; a connection that has not passed both checks, or was       *)
(* rejected by either, has no entry under its channel at any time.         *)
C2_OnlyAuthorizedRegistered ==
    /\ \A t \in RouteIds : \A e \in Entries(t) :
         /\ e[1] \in Users
         /\ IsParticipant(e[1], t)
         /\ ~Closed(e[2]) =>
               /\ pc[e[2]] \in {"open", "fanout", "zombie"}
               /\ scope[e[2]].cred = [kind |-> "valid", uid |-> e[1]]
               /\ scope[e[2]].thread_id = t
    /\ \A c \in Conns :
         pc[c] \in {"idle", "authz", "closing", "refused"} => c \notin Handles

\* One connection is registered while a second was rejected for its token and
\* a third for its thread.
C2_Witness ==
    \E c, d, e \in Conns :
        /\ c \in Handles
        /\ pc[d] = "closing" /\ scope[d].user = Anonymous
        /\ pc[e] = "closing" /\ scope[e].user \in Users /\ scope[e].thread_id = scope[c].thread_id

(* C3  Once a connection has closed, by whatever path, active_channels     *)
(* holds no entry whose channel is that connection's.                      *)
C3_NoEntryForClosed == \A c \in Conns : Closed(c) => c \notin Handles

\* Connection c is registered: the entry of its (thread, principal) key holds
\* its channel.
RegisteredAs(c) == <<scope[c].user, c>> \in Entries(scope[c].thread_id)

\* Connection d completes its registration in this step.
Registers(d) == pc[d] = "authz" /\ pc'[d] = "open"

(* C4  When a connection registers under a key that already has an entry,  *)
(* the entry becomes the new connection's channel (and the only one of the *)
(* key), and from then on, while the new connection stays connected, the   *)
(* key keeps mapping to it, so every peer lookup returns it, until a later *)
(* registration of the same key replaces it.                               *)
C4_NewHandleWins ==
    [][\A c \in Conns :
          /\ Registers(c) =>
                \A e \in Entries(scope[c].thread_id)' :
                    e[1] = scope[c].user => e[2] = c
          /\ (Live(c) /\ RegisteredAs(c) /\ Live(c)') =>
                \/ RegisteredAs(c)'
                \/ \E d \in Conns \ {c} :
                      /\ Registers(d)
                      /\ scope[d].thread_id = scope[c].thread_id
                      /\ scope[d].user = scope[c].user]_vars

(* C5  A disconnect whose (thread, principal) key is not in the registry   *)
(* (the key was never registered, or an earlier disconnect of the same key *)
(* already removed it) runs to its end and leaves the registry as it was.  *)
C5_DeregisterNoOp ==
    [][\A c \in Conns :
          (/\ pc[c] \in {"open", "closing"}
           /\ pc'[c] \notin {"open", "closing", "fanout", "zombie"}
           /\ scope[c].user \notin {e[1] : e \in Entries(scope[c].thread_id)})
          => /\ active_channels' = active_channels
             /\ pc'[c] \in {"closed", "refused"}]_vars

\* The disconnect of a rejected connection (a key never registered) and the
\* disconnect of an open session have both run, and the registry still holds
\* another connection's entry.
C5_Witness ==
    \E c, d \in Conns :
        /\ pc[c] = "refused"
        /\ pc[d] = "closed"
        /\ active_channels # <<>>

\* The message_new frames of row id in the queue q.
MsgFrames(q, id) == Count(q, LAMBDA f : f.type = "message_new" /\ f.id = id)

\* No channel registered under a principal holds a message that principal sent.
NoSelfPush ==
    \A t \in RouteIds : \A e \in Entries(t) :
        \A i \in 1..Len(channel[e[2]]) :
            channel[e[2]][i].type = "message_new" => channel[e[2]][i].sender # e[1]

(* C6  When a message of principal A is stored for a thread, the fan-out   *)
(* that starts in the same step targets the channel of every other         *)
(* principal B registered under the thread and no channel registered under *)
(* A; each turn of the fan-out pushes the payload to its target's channel  *)
(* and to no other (or logs the failure of that push); and no channel      *)
(* registered under a principal ever holds a payload that principal sent.  *)
C6_PushedToPeerNotSender ==
    [][/\ \A c \in Conns :
            (/\ pc[c] = "open"
             /\ Len(replies') = Len(replies) + 1
             /\ replies'[Len(replies')].message_id = scope[c].thread_id
             /\ replies'[Len(replies')].replied_by = scope[c].user)
            => \A e \in Entries(scope[c].thread_id) :
                  IF e[1] # scope[c].user
                  THEN \E d \in Conns :
                          /\ pc[d] = "open" /\ pc'[d] = "fanout"
                          /\ local'[d].message.id = Len(replies')
                          /\ local'[d].message.sender = scope[c].user
                          /\ \E i \in 1..Len(local'[d].others) : local'[d].others[i] = e
                  ELSE \A d \in Conns :
                          local'[d].message.id = Len(replies') => e[2] \notin Values(local'[d].others)
       /\ \A c \in Conns :
            (pc[c] = "fanout" /\ local'[c] # local[c])
            => LET target == local[c].others[local[c].i]
               IN  /\ target[1] # local[c].message.sender
                   /\ \A h \in Conns \ {target[2]} : channel'[h] = channel[h]
                   /\ \/ channel'[target[2]] = Append(channel[target[2]], local[c].message)
                      \/ /\ channel'[target[2]] = channel[target[2]]
                         /\ [event |-> "failed", id |-> local[c].message.id, to |-> {target[2]}] \in log'
       /\ NoSelfPush']_vars

\* A message was stored while two other principals were registered under its
\* thread, and its fan-out has pushed it to both.
C6_Witness ==
    \E id \in 1..Len(replies) : \E h, g \in Conns :
        /\ h # g
        /\ MsgFrames(channel[h], id) = 1
        /\ MsgFrames(channel[g], id) = 1
        /\ [event |-> "sent", id |-> id, to |-> {h}] \in log
        /\ [event |-> "sent", id |-> id, to |-> {g}] \in log

\* The fan-out of row id took channel h as one of its targets.
Targeted(id, h) == \E r \in log : r.event = "sending" /\ r.id = id /\ h \in r.to

\* The principal connection c authenticated as.
Principal(c) == scope[c].cred.uid

\* What sits in the channel and on the client of every connected consumer.
ExactlyOnceSoFar ==
    \A h \in Conns :
        pc[h] \in {"open", "fanout"} =>
            /\ \A id \in 1..MaxTalk :
                  /\ MsgFrames(channel[h], id) + MsgFrames(outbound[h], id) <= 1
                  /\ MsgFrames(channel[h], id) + MsgFrames(outbound[h], id) = 1
                        => /\ Targeted(id, h)
                           /\ [event |-> "sent", id |-> id, to |-> {h}] \in log
            /\ \A i \in 1..Len(outbound[h]) :
                  \/ i = 1 /\ outbound[h][i] = AcceptEvent
                  \/ /\ i > 1
                     /\ outbound[h][i].type = "message_new"
                     /\ outbound[h][i].id \in 1..Len(replies)
                     /\ outbound[h][i].text = replies[outbound[h][i].id].reply_text
                     /\ outbound[h][i].sender = replies[outbound[h][i].id].replied_by
                     /\ outbound[h][i].sender # Principal(h)

(* C7  With A and B registered under one thread, every message_new of A    *)
(* that is stored puts exactly one message_new frame with A's text on the  *)
(* client of B: never two, and one in the end whenever B stays connected   *)
(* and the push to B's channel did not fail; A's own client receives no    *)
(* frame from it.                                                          *)
C7_ExactlyOneFrame ==
    /\ []ExactlyOnceSoFar
    /\ \A h \in Conns : \A id \in 1..MaxTalk :
          Targeted(id, h) ~>
             \/ MsgFrames(outbound[h], id) = 1
             \/ pc[h] \in {"zombie", "dead", "closed"}
             \/ [event |-> "failed", id |-> id, to |-> {h}] \in log

\* Two messages of one principal have both arrived on the client of another,
\* in the order they were sent; the sender's client holds the accept alone.
C7_Witness ==
    \E a, b \in Conns :
        /\ pc[a] = "open" /\ pc[b] = "open"
        /\ Len(replies) = 2
        /\ replies[1].replied_by = Principal(a) /\ replies[2].replied_by = Principal(a)
        /\ outbound[a] = <<AcceptEvent>>
        /\ Len(outbound[b]) = 3
        /\ outbound[b][2].id = 1 /\ outbound[b][2].text = replies[1].reply_text
        /\ outbound[b][3].id = 2 /\ outbound[b][3].text = replies[2].reply_text

\* The types of the events in q, in order.
Types(q) == [i \in 1..Len(q) |-> q[i].type]

(* C8  A connection whose token does not verify, or whose principal is not *)
(* a participant of the thread, is sent accept, then one error frame, then *)
(* close, in that order; it is never connected (it never enters the        *)
(* receive loop), and it ends closed.                                      *)
C8_RejectionOrder ==
    /\ [](\A c \in Conns :
            /\ pc[c] = "closing" => Types(outbound[c]) = <<"accept", "error", "close">>
            /\ pc[c] \in {"open", "fanout"} =>
                  /\ scope[c].cred.kind = "valid"
                  /\ IsParticipant(scope[c].cred.uid, scope[c].thread_id))
    /\ [][\A c \in Conns :
            /\ pc[c] = "closing" => pc'[c] \in {"closing", "refused"}
            /\ (pc[c] = "idle" /\ pc'[c] # "idle") =>
                  IF scope'[c].cred.kind = "valid" THEN pc'[c] = "authz" ELSE pc'[c] = "closing"
            /\ (pc[c] = "authz" /\ pc'[c] # "authz") =>
                  IF IsParticipant(scope[c].cred.uid, scope[c].thread_id)
                  THEN pc'[c] = "open"
                  ELSE pc'[c] = "closing"]_vars
    /\ \A c \in Conns : (pc[c] = "closing") ~> (pc[c] = "refused")

\* One connection was rejected for its token and has ended closed; another is
\* being rejected for its thread.
C8_Witness ==
    \E c, d \in Conns :
        /\ pc[c] = "refused"
        /\ pc[d] = "closing" /\ scope[d].cred.kind = "valid"
        /\ Types(outbound[d]) = <<"accept", "error", "close">>

(* C9  A rejected connection whose token did not verify is sent error code *)
(* "auth_failed" and close code 4401, whatever thread it named; one whose  *)
(* token verified but whose principal is not a participant of the thread   *)
(* is sent error code "forbidden" and close code 4403.                     *)
C9_DistinctRejections ==
    \A c \in Conns :
        pc[c] = "closing" =>
            /\ Len(outbound[c]) = 3
            /\ IF scope[c].cred.kind # "valid"
               THEN /\ outbound[c][2].code = "auth_failed"
                    /\ outbound[c][3].close_code = 4401
               ELSE /\ ~IsParticipant(scope[c].cred.uid, scope[c].thread_id)
                    /\ outbound[c][2].code = "forbidden"
                    /\ outbound[c][3].close_code = 4403

\* Three rejections at once: no token on a thread the user-less caller could
\* not know of, an expired token on an existing thread, and a valid token of
\* a user who is not a participant.
C9_Witness ==
    \E c, d, e \in Conns :
        /\ pc[c] = "closing" /\ scope[c].cred.kind = "none" /\ scope[c].thread_id = 9
        /\ pc[d] = "closing" /\ scope[d].cred.kind = "expired" /\ scope[d].thread_id = 7
        /\ pc[e] = "closing" /\ scope[e].cred.kind = "valid" /\ scope[e].thread_id = 7

\* The verifier's failure cause behind a credential: a fault while the header
\* is read and a fault during the lookup are both its "Exception".
Cause(cred) == IF cred.kind \in {"bad_header", "lookup_fault"} THEN "exception" ELSE cred.kind

\* details.reason of the error frame a rejected connection was sent
Reason(c) == outbound[c][2].reason

(* C10 (as claimed)  No two of the five failure causes produce the same    *)
(* details.reason.                                                         *)
C10_ReasonsPairwiseDistinct ==
    \A c, d \in Conns :
        (/\ pc[c] = "closing" /\ scope[c].cred.kind # "valid"
         /\ pc[d] = "closing" /\ scope[d].cred.kind # "valid"
         /\ Cause(scope[c].cred) # Cause(scope[d].cred))
        => Reason(c) # Reason(d)

(* C10 (amended)  details.reason tells three cases apart: "no_token" when  *)
(* the handshake carried no credential, "invalid_token" when the token     *)
(* failed verification for whatever cause, "exception" when the middleware *)
(* itself faulted while reading the credential.                            *)
C10_ReasonByCause ==
    \A c \in Conns :
        (pc[c] = "closing" /\ scope[c].cred.kind # "valid") =>
            /\ outbound[c][2].code = "auth_failed"
            /\ Reason(c) = CASE scope[c].cred.kind = "none" -> "no_token"
                             [] scope[c].cred.kind = "bad_header" -> "exception"
                             [] OTHER -> "invalid_token"

\* An expired token and a token of an unknown user were both rejected, with
\* the same reason.
C10_Witness ==
    \E c, d \in Conns :
        /\ pc[c] = "closing" /\ scope[c].cred.kind = "expired"
        /\ pc[d] = "closing" /\ scope[d].cred.kind = "unknown_user"
        /\ Reason(c) = Reason(d)

(* C11 (as claimed)  _is_participant returns true exactly when the thread  *)
(* exists and the user's phone number equals the thread's farmer phone, or *)
(* the user's id equals the assigned staff id, or the user is staff.       *)
C11_ParticipantByPhoneIdOrStaff ==
    probe.fn = "_is_participant" =>
        (probe.out = "True") <=>
            /\ probe.message.exists
            /\ \/ probe.user.phone_number = probe.message.farmer_phone
               \/ probe.user.id = probe.message.assigned_to_id
               \/ probe.user.is_staff

(* C11 (amended)  _is_participant returns false when the thread does not   *)
(* exist; for an existing thread it returns true for a farmer whose phone  *)
(* number is the thread's farmer phone, for the user whose id is the       *)
(* assigned staff id and for any staff user, and false for everyone else,  *)
(* a user who is not a farmer but has the farmer's phone number included.  *)
C11_ParticipantMatrix ==
    probe.fn = "_is_participant" =>
        LET u == probe.user
            m == probe.message
        IN  /\ ~m.exists => probe.out = "False"
            /\ (m.exists /\ u.is_farmer /\ u.phone_number = m.farmer_phone) => probe.out = "True"
            /\ (m.exists /\ u.id = m.assigned_to_id) => probe.out = "True"
            /\ (m.exists /\ u.is_staff) => probe.out = "True"
            /\ (/\ m.exists /\ ~u.is_staff /\ u.id # m.assigned_to_id
                /\ ~(u.is_farmer /\ u.phone_number = m.farmer_phone)) => probe.out = "False"

\* _is_participant has refused a user who has the farmer's phone number but is
\* neither a farmer, nor assigned, nor staff.
C11_Witness ==
    /\ probe.fn = "_is_participant"
    /\ probe.message.exists
    /\ probe.user.phone_number = probe.message.farmer_phone
    /\ ~probe.user.is_farmer /\ ~probe.user.is_staff
    /\ probe.user.id # probe.message.assigned_to_id
    /\ probe.out = "False"

\* The user a claim value names: the user of that id, nobody otherwise.
UserOf(v) == IF v \in Users THEN v ELSE Anonymous

(* C12 (as claimed)  A token that carries both a uid and a user_id claim   *)
(* resolves the user from uid, whatever the two values.                    *)
C12_UidAlwaysWins ==
    (/\ probe.fn = "_get_user_from_token"
     /\ probe.payload.uid # None /\ probe.payload.user_id # None)
    => probe.out = UserOf(probe.payload.uid)

(* C12 (amended)  A token that carries both claims resolves the user from  *)
(* uid when uid is truthy (not 0, not the empty string), and from user_id  *)
(* when uid is 0 or empty.                                                 *)
C12_UidWinsUnlessFalsy ==
    (/\ probe.fn = "_get_user_from_token"
     /\ probe.payload.uid # None /\ probe.payload.user_id # None)
    => probe.out = IF probe.payload.uid \in {"zero", "empty"}
                   THEN UserOf(probe.payload.user_id)
                   ELSE UserOf(probe.payload.uid)

\* A token with uid 0 and the user_id of a user has resolved to that user.
C12_Witness ==
    /\ probe.fn = "_get_user_from_token"
    /\ probe.payload.uid = "zero"
    /\ probe.payload.user_id = "u2"
    /\ probe.out = "u2"

\* The media frames that name a media id.
MediaFrames == {f \in InFrames : f.type \in MediaTypes /\ f.media_id # None}

\* The entries of c's thread registered under other principals than c's.
PeerEntries(c) == {en \in Entries(scope[c].thread_id) : en[1] # scope[c].user}

(* C13  When receive handles a media_reference or media_data frame of A    *)
(* that names a media id, and the message row is stored, A's client is     *)
(* sent exactly one frame, the acknowledgment with that media id and       *)
(* status "received", also when nobody else is registered under the        *)
(* thread; the fan-out payload is another frame (a message_new with the    *)
(* media id), targeted at the channel of every other registered principal  *)
(* and at no channel of A; nothing is queued on any channel in that step,  *)
(* and no client but A's is written to.                                    *)
C13_AckAndFanout ==
    [][\A c \in Conns : \A frame \in MediaFrames :
          Receive(c, frame, TRUE) =>
             /\ Len(outbound'[c]) = Len(outbound[c]) + 1
             /\ SubSeq(outbound'[c], 1, Len(outbound[c])) = outbound[c]
             /\ LET ack == outbound'[c][Len(outbound'[c])]
                IN  /\ ack.media_id = frame.media_id
                    /\ ack.status = "received"
                    /\ ack.type # "message_new"
                    /\ ack.id = Len(replies')
             /\ \A h \in Conns \ {c} : outbound'[h] = outbound[h]
             /\ channel' = channel
             /\ Len(replies') = Len(replies) + 1
             /\ IF PeerEntries(c) = {}
                THEN pc'[c] = "open"
                ELSE /\ pc'[c] = "fanout"
                     /\ {local'[c].others[i] : i \in 1..Len(local'[c].others)} = PeerEntries(c)
                     /\ local'[c].message.type = "message_new"
                     /\ local'[c].message.media_id = frame.media_id
                     /\ local'[c].message.sender = scope[c].user
                     /\ c \notin Values(local'[c].others)]_vars

\* The only connection registered under its thread has been sent the
\* acknowledgment of its media frame, and nothing else.
C13_Witness ==
    \E c \in Conns :
        /\ pc[c] = "open"
        /\ Entries(scope[c].thread_id) = {<<scope[c].user, c>>}
        /\ Len(outbound[c]) = 2
        /\ outbound[c][2].status = "received"
        /\ outbound[c][2].media_id = "m1"
        /\ Len(replies) = 1
        /\ channel[c] = <<>>

\* Text frames that do not decode into an event: text that is not JSON, and
\* JSON that is not an object.
Undecodable == {f \in InFrames : f.type \in {"garbage", "nonobject"}}

(* C14  A frame that cannot be decoded into an event produces no reply,    *)
(* leaves the session open and the registry and the stored messages as     *)
(* they were.                                                              *)
C14_UndecodableIgnored ==
    [][\A c \in Conns : \A frame \in Undecodable : \A db_ok \in BOOLEAN :
          Receive(c, frame, db_ok) =>
             /\ pc'[c] = "open"
             /\ outbound' = outbound
             /\ channel' = channel
             /\ active_channels' = active_channels
             /\ replies' = replies]_vars

\* The frames that store a message.
StoringFrames == {f \in InFrames : f.type = "message_new"} \cup MediaFrames

(* C15  When the persistence call fails while receive handles message_new  *)
(* or a media frame, the sender's client is sent an error frame, the       *)
(* connection stays open and registered, and nothing is queued for or      *)
(* targeted at any peer.                                                   *)
C15_PersistenceErrorReported ==
    [][\A c \in Conns : \A frame \in StoringFrames :
          Receive(c, frame, FALSE) =>
             /\ pc'[c] = "open"
             /\ Len(outbound'[c]) = Len(outbound[c]) + 1
             /\ outbound'[c][Len(outbound'[c])].type = "error"
             /\ active_channels' = active_channels
             /\ channel' = channel
             /\ replies' = replies]_vars

\* The typing frames.
TypingFrames == {f \in InFrames : f.type \in {"typing_start", "typing_stop"}}

\* Connection c is the only connection its principal has had: every other
\* connection is unused, was rejected, or is known to be another principal's.
SoleConnection(c) ==
    \A d \in Conns \ {c} :
        \/ pc[d] \in {"idle", "refused"}
        \/ ~Closed(d) /\ Principal(d) # Principal(c)

(* C16  A typing_start or typing_stop of A stores no message and is queued *)
(* for the other connections of the thread's group; when the typing event  *)
(* of A's own (and only) connection comes up on that connection's channel, *)
(* nothing is written to A's client.                                       *)
C16_TypingToPeersOnly ==
    [][\A c \in Conns :
          /\ \A frame \in TypingFrames : \A db_ok \in BOOLEAN :
                Receive(c, frame, db_ok) =>
                   /\ replies' = replies
                   /\ \A h \in Conns \ {c} :
                         <<scope[c].thread_id, h>> \in groups => Len(channel'[h]) = Len(channel[h]) + 1
          /\ (/\ Deliver(c)
              /\ Head(channel[c]).type = "broadcast"
              /\ Head(channel[c]).sender = Principal(c)
              /\ SoleConnection(c))
             => outbound'[c] = outbound[c]]_vars

\* The fan-out of row id has made its attempt on channel h.
Attempted(id, h) ==
    \/ [event |-> "sent", id |-> id, to |-> {h}] \in log
    \/ [event |-> "failed", id |-> id, to |-> {h}] \in log

\* Every fan-out that is over has made its attempt on each of its targets,
\* and every running one on each target before its position.
AllAttempted ==
    /\ \A r \in log :
          (r.event = "sending" /\ ~\E c \in Conns : pc[c] = "fanout" /\ local[c].message.id = r.id)
          => \A h \in r.to : Attempted(r.id, h)
    /\ \A c \in Conns :
          pc[c] = "fanout" =>
             \A j \in 1..(local[c].i - 1) : Attempted(local[c].message.id, local[c].others[j][2])

(* C17  A push that fails is logged and the fan-out goes on with its next  *)
(* target: every target of a fan-out gets its attempt, the sender's        *)
(* handler does not raise (the session stays connected, open again after   *)
(* the last target), and the sender's client is sent nothing.              *)
C17_PushFailureIsolated ==
    [][/\ \A c \in Conns :
            Push(c, FALSE) =>
               /\ outbound' = outbound
               /\ channel' = channel
               /\ IF local[c].i < Len(local[c].others)
                  THEN /\ pc'[c] = "fanout"
                       /\ local'[c].i = local[c].i + 1
                       /\ local'[c].others = local[c].others
                       /\ local'[c].message = local[c].message
                  ELSE pc'[c] = "open"
       /\ AllAttempted']_vars

\* A fan-out over two peers has failed on the first of them and then pushed
\* the message to the second.
C17_Witness ==
    \E t \in DOMAIN active_channels : \E i, j \in 1..Len(active_channels[t]) : \E id \in 1..Len(replies) :
        /\ i < j
        /\ [event |-> "failed", id |-> id, to |-> {active_channels[t][i][2]}] \in log
        /\ [event |-> "sent", id |-> id, to |-> {active_channels[t][j][2]}] \in log
        /\ MsgFrames(channel[active_channels[t][i][2]], id) = 0
        /\ MsgFrames(channel[active_channels[t][j][2]], id) = 1
        /\ \A c \in Conns : pc[c] # "fanout"

(* C18  A message_new of A handled while no other principal is registered  *)
(* under the thread stores exactly one message row, with A's text, queues  *)
(* nothing on any channel, writes to no client, and leaves A's connection  *)
(* open and the registry as it was.                                        *)
C18_NoPeers ==
    [][\A c \in Conns : \A frame \in {f \in InFrames : f.type = "message_new"} :
          (Receive(c, frame, TRUE) /\ PeerEntries(c) = {}) =>
             /\ replies' = Append(replies, [message_id |-> scope[c].thread_id,
                                            replied_by |-> scope[c].user,
                                            reply_text |-> frame.text])
             /\ channel' = channel
             /\ outbound' = outbound
             /\ pc'[c] = "open"
             /\ active_channels' = active_channels]_vars

\* The farmer of thread 7, alone on it, has sent "hi": one row, no frame.
C18_Witness ==
    \E c \in Conns :
        /\ pc[c] = "open"
        /\ Entries(7) = {<<"u1", c>>}
        /\ replies = <<[message_id |-> 7, replied_by |-> "u1", reply_text |-> "hi"]>>
        /\ [event |-> "no_others", id |-> 1, to |-> {}] \in log
        /\ outbound[c] = <<AcceptEvent>>
        /\ \A h \in Conns : channel[h] = <<>>

\* JSON objects whose type tag is none of the event kinds receive knows.
UnknownFrames == {f \in InFrames : f.type = "unknown"}

(* C19  A frame whose type tag is not a known event kind is ignored: no    *)
(* client is written to, nothing is queued on any channel, no message is   *)
(* stored, the registry is unchanged and the connection stays open.        *)
C19_UnknownTypeIgnored ==
    [][\A c \in Conns : \A frame \in UnknownFrames : \A db_ok \in BOOLEAN :
          Receive(c, frame, db_ok) =>
             /\ outbound' = outbound
             /\ channel' = channel
             /\ replies' = replies
             /\ active_channels' = active_channels
             /\ pc'[c] = "open"
             /\ log' = log]_vars

\* A connected consumer has handled its one frame, of unknown type, with a
\* peer registered: nothing was stored, queued or sent.
C19_Witness ==
    \E c, d \in Conns :
        /\ c # d
        /\ pc[c] = "open" /\ pc[d] = "open"
        /\ scope[c].thread_id = scope[d].thread_id
        /\ nframes = MaxFrames
        /\ replies = <<>> /\ log = {}
        /\ \A h \in Conns : channel[h] = <<>>
        /\ outbound[c] = <<AcceptEvent>> /\ outbound[d] = <<AcceptEvent>>

\* What the client of h has been sent followed by what still waits on the
\* channel of h: the order in which h's client sees its frames.
Stream(h) == outbound[h] \o channel[h]

\* Principal u has sent all its messages on one connection.
OneConnectionOf(u) ==
    \E a \in Conns : pc[a] \notin {"idle", "refused"} /\ Principal(a) = u /\ SoleConnection(a)

(* C20  Always: when A has sent its messages on one connection, the        *)
(* message frames of A that a connected consumer B has been sent or has    *)
(* waiting on its channel are in the order in which A submitted them       *)
(* (the order of their row ids).  Nothing is said of two senders.          *)
C20_PerSenderOrder ==
    \A h \in Conns :
        Live(h) =>
            \A i, j \in 1..Len(Stream(h)) :
                (/\ Stream(h)[i].type = "message_new"
                 /\ Stream(h)[j].type = "message_new"
                 /\ Stream(h)[i].sender = Stream(h)[j].sender
                 /\ OneConnectionOf(Stream(h)[i].sender)
                 /\ Stream(h)[i].id < Stream(h)[j].id)
                => i < j

\* The first message of A's single connection is on B's client while the
\* second still waits on B's channel.
C20_Witness ==
    \E a, b \in Conns :
        /\ a # b
        /\ Live(a) /\ Live(b)
        /\ SoleConnection(a)
        /\ Len(replies) = 2
        /\ replies[1].replied_by = Principal(a) /\ replies[2].replied_by = Principal(a)
        /\ Len(outbound[b]) = 2
        /\ outbound[b][2].type = "message_new" /\ outbound[b][2].id = 1
        /\ Len(channel[b]) = 1
        /\ channel[b][1].type = "message_new" /\ channel[b][1].id = 2

\* The registry is well formed: no thread has an empty dict, and no dict has
\* a key twice.
WellFormed ==
    \A t \in DOMAIN active_channels :
        /\ active_channels[t] # <<>>
        /\ \A i, j \in 1..Len(active_channels[t]) :
              active_channels[t][i][1] = active_channels[t][j][1] => i = j

(* C21  Under every interleaving of the handlers the registry stays well   *)
(* formed and loses no registration: while nobody has disconnected, two    *)
(* connected sessions of distinct principals on one thread both have their *)
(* key in the thread's dict; and an entry leaves the registry only in a    *)
(* step of connect or disconnect of a connection of the entry's own        *)
(* principal on the entry's own thread.                                    *)
C21_NoLostRegistration ==
    /\ [](/\ WellFormed
          /\ \A a, b \in Conns :
                (/\ Live(a) /\ Live(b)
                 /\ scope[a].thread_id = scope[b].thread_id
                 /\ Principal(a) # Principal(b)
                 /\ \A d \in Conns : pc[d] # "closed")
                => {Principal(a), Principal(b)} \subseteq {e[1] : e \in Entries(scope[a].thread_id)})
    /\ [][\A t \in RouteIds : \A e \in Entries(t) :
             e \notin Entries(t)' =>
                \E c \in Conns :
                    /\ scope[c].thread_id = t
                    /\ UserId(c) = e[1]
                    /\ pc[c] \in {"authz", "open", "closing"}
                    /\ pc'[c] # pc[c]]_vars

\* Two principals are registered and connected on thread 7 after a third
\* session has come and gone.
C21_Witness ==
    \E a, b, d \in Conns :
        /\ Live(a) /\ Live(b)
        /\ Principal(a) # Principal(b)
        /\ <<Principal(a), a>> \in Entries(7)
        /\ <<Principal(b), b>> \in Entries(7)
        /\ pc[d] = "closed"

(* C22  The bypass is for the test target alone.  A session connected on a *)
(* chat thread has a verified user, never the anonymous one, and no        *)
(* registry key is the anonymous principal.  A connection to the test      *)
(* target is anonymous whatever it carries, is in no registry entry and no *)
(* group, its steps leave the registry and the groups as they are, and it  *)
(* never becomes a chat session.                                           *)
C22_BypassOnlyForTest ==
    /\ [](/\ \A c \in Conns :
                Live(c) => /\ scope[c].user # Anonymous
                           /\ scope[c].cred.kind = "valid"
                           /\ scope[c].user = scope[c].cred.uid
          /\ \A t \in RouteIds : \A e \in Entries(t) : e[1] # Anonymous
          /\ \A c \in Conns :
                pc[c] = "test" => /\ scope[c].user = Anonymous
                                  /\ c \notin Handles
                                  /\ \A t \in RouteIds : <<t, c>> \notin groups)
    /\ [][\A c \in Conns :
             /\ pc[c] = "test" => pc'[c] \in {"test", "closed"}
             /\ (pc'[c] = "test" /\ (pc[c] = "idle" \/ outbound'[c] # outbound[c]))
                => /\ active_channels' = active_channels
                   /\ groups' = groups]_vars

\* A connection without credentials is on the test target and has had its
\* echo, while a verified participant is connected and registered on
\* thread 7, alone in the registry.
C22_Witness ==
    \E c, d \in Conns :
        /\ pc[c] = "test"
        /\ scope[c].cred.kind = "none"
        /\ Len(outbound[c]) = 3
        /\ pc[d] = "open"
        /\ Entries(7) = {<<scope[d].user, d>>}
        /\ DOMAIN active_channels = {7}

(* C23  When the founder of the group approves a pending join request, the *)
(* request becomes approved and the farmer a member of the group (one row  *)
(* for the pair, which is what membership in the set of rows is); when a   *)
(* user who is not the founder responds, the request stays pending and no  *)
(* member row is made.                                                     *)
C23_FounderApproves ==
    [][\A user \in Users : \A p \in EcopGroups \X Farmers : \A approve \in BOOLEAN :
          (RespondJoinRequest(user, p, approve) /\ ecop.join_requests[p] = "pending") =>
             /\ (user = founder(p[1]) /\ approve) =>
                   /\ ecop'.join_requests[p] = "approved"
                   /\ p \in ecop'.members
                   /\ ecop'.response.status_code = 200
             /\ user # founder(p[1]) =>
                   /\ ecop'.join_requests[p] = "pending"
                   /\ ecop'.members = ecop.members]_vars

\* Frame f tells of a stored row: its id is the id of a GovernmentReply row
\* with its text and its sender.
Persisted(f) ==
    /\ f.id \in 1..Len(replies)
    /\ replies[f.id].reply_text = f.text
    /\ replies[f.id].replied_by = f.sender

\* The acknowledgments of receive, lines 163-168.
IsMediaAck(f) == f.type = None /\ f.status = "received"

(* C24  Always: every message payload that a fan-out holds, that waits on  *)
(* a channel or that a client has been sent, and every acknowledgment a    *)
(* sender has been sent, is of a row that is stored: the row is created    *)
(* before the first push and before the acknowledgment.                    *)
C24_PersistedFirst ==
    /\ \A c \in Conns : pc[c] = "fanout" => Persisted(local[c].message)
    /\ \A h \in Conns :
          /\ \A i \in 1..Len(channel[h]) :
                channel[h][i].type = "message_new" => Persisted(channel[h][i])
          /\ \A i \in 1..Len(outbound[h]) :
                /\ outbound[h][i].type = "message_new" => Persisted(outbound[h][i])
                /\ IsMediaAck(outbound[h][i]) =>
                      /\ outbound[h][i].id \in 1..Len(replies)
                      /\ replies[outbound[h][i].id].replied_by = scope[h].cred.uid

\* The row of a media reference is stored and acknowledged, and the fan-out
\* has its payload but has pushed nothing yet.
C24_Witness ==
    \E c \in Conns :
        /\ pc[c] = "fanout"
        /\ local[c].i = 1
        /\ local[c].message.media_id # None
        /\ Len(replies) = 1
        /\ \E i \in 1..Len(outbound[c]) : IsMediaAck(outbound[c][i]) /\ outbound[c][i].id = 1
        /\ \A h \in Conns : channel[h] = <<>>

(* C25  The disconnect of a connection that was rejected (it was sent the  *)
(* auth_failed or the forbidden error and never registered) leaves the     *)
(* registry exactly as it was.                                             *)
C25_RejectedDisconnectNoOp ==
    [][\A c \in Conns :
          (pc[c] = "closing" /\ Disconnect(c)) => active_channels' = active_channels]_vars

(* C26  Always: an upload acknowledgment that the client of a connected    *)
(* session has been sent is of an upload by that session's own principal;  *)
(* no other participant of the thread is sent it.                          *)
C26_UploadAckToUploaderOnly ==
    \A h \in Conns :
        Live(h) =>
            \A i \in 1..Len(outbound[h]) :
                outbound[h][i].type = "media_ack" => outbound[h][i].sender = scope[h].user

(* C27  On the gova-pp route, a message_new or text_message with a text    *)
(* sent by A is queued, as a message frame with A's text, for every other  *)
(* principal connected on the thread, and A's own client is sent no        *)
(* message frame.                                                          *)
C27_GovaToPeersNotSender ==
    [][\A c \in Conns : \A frame \in {f \in GovaFrames : f.type \in GovaTextTypes /\ f.text # ""} :
          GovaReceive(c, frame) =>
             /\ \A h \in Conns \ {c} :
                   (/\ pc[h] = "gova"
                    /\ scope[h].thread_id = scope[c].thread_id
                    /\ scope[h].user # scope[c].user)
                   => /\ Len(channel'[h]) = Len(channel[h]) + 1
                      /\ channel'[h][Len(channel'[h])].text = frame.text
                      /\ channel'[h][Len(channel'[h])].sender = scope[c].user
             /\ \A i \in (Len(outbound[c]) + 1)..Len(outbound'[c]) :
                   outbound'[c][i].type # "message_new"]_vars

(* C28 as stated: a Bearer-prefixed header value is the token when         *)
(* present, otherwise the token query parameter is; when neither yields a  *)
(* token the outcome is no_token without a user lookup; a valid token      *)
(* through either transport alone authenticates as its user.               *)
C28_BearerElseQuery ==
    probe.fn = "__call__" =>
        LET h == probe.payload.header
            q == probe.payload.query
            o == probe.out
        IN  /\ h.form = "bearer" => o.token = h.token
            /\ h.form # "bearer" => o.token = (IF q = <<>> THEN None ELSE q[1])
            /\ (h.form # "bearer" /\ q = <<>>) =>
                  (o.auth_error = "no_token" /\ ~o.lookup /\ o.user = Anonymous)
            /\ (h.form = "bearer" /\ h.token \in {"tok_u1", "tok_u2"} /\ q = <<>>) =>
                  (o.user = TokenCred(h.token).uid /\ o.auth_error = None)
            /\ (h.form = "absent" /\ q # <<>> /\ q[1] \in {"tok_u1", "tok_u2"}) =>
                  (o.user = TokenCred(q[1]).uid /\ o.auth_error = None)

(* C28  The token of a handshake is the text after "Bearer " in the        *)
(* sec-websocket-protocol header when that text is not empty, else the     *)
(* whole header value when it is longer than 50 characters, else the first *)
(* non-blank token query parameter.  With no token the outcome is no_token *)
(* and no user is looked up; with a token the user is looked up, and a     *)
(* valid one authenticates as its user whichever transport carried it.  A  *)
(* header that is not valid UTF-8 gives the outcome exception, without a   *)
(* lookup, whatever the query string holds.                                *)
C28_Extraction ==
    probe.fn = "__call__" =>
        LET h == probe.payload.header
            q == probe.payload.query
            o == probe.out
            first == IF q = <<>> THEN None ELSE q[1]
        IN  /\ h.form = "undecodable" =>
                  (o.auth_error = "exception" /\ o.user = Anonymous /\ ~o.lookup)
            /\ (h.form = "bearer" /\ h.token # "") => o.token = h.token
            /\ h.form = "long" => o.token = h.token
            /\ (h.form \in {"absent", "short"} \/ (h.form = "bearer" /\ h.token = "")) =>
                  o.token = first
            /\ (h.form # "undecodable" /\ o.token = None) =>
                  (o.auth_error = "no_token" /\ o.user = Anonymous /\ ~o.lookup)
            /\ o.token \in {"tok_u1", "tok_u2"} =>
                  (o.lookup /\ o.user = TokenCred(o.token).uid /\ o.auth_error = None)
            /\ o.token = "tok_junk" =>
                  (o.lookup /\ o.user = Anonymous /\ o.auth_error = "invalid_token")

\* A long header value that is no token goes before a valid token of the
\* query string.
C28_Witness ==
    /\ probe.fn = "__call__"
    /\ probe.payload.header = [form |-> "long", token |-> "tok_junk"]
    /\ probe.payload.query = <<"tok_u1">>
    /\ probe.out.token = "tok_junk"
    /\ probe.out.auth_error = "invalid_token"

(* C29  A session's disconnect removes a registry entry only when the      *)
(* entry's handle is the session's own connection: every entry holding     *)
(* another connection's handle, such as that of a second, newer connection *)
(* of the same principal on the thread, is still there afterwards.         *)
C29_DisconnectRemovesOwnOnly ==
    [][\A c \in Conns :
          Disconnect(c) =>
             \A t \in RouteIds : \A e \in Entries(t) :
                 e[2] # c => e \in Entries(t)']_vars

\* The rows whose id the events and frames of queue q carry.
RowsOf(q) == {q[i].id : i \in 1..Len(q)} \ {0}

(* C30  Thread isolation.  Always: every stored message whose id an event  *)
(* queued for a connection, or a frame written to its client, carries is a *)
(* row of the thread the connection was opened on, and the peers a fan-out *)
(* has collected are connections opened on the sender's thread.  A push or *)
(* a typing broadcast of a session on thread T changes the queue of no     *)
(* connection that is open on another thread.                              *)
C30_ThreadIsolation ==
    /\ [](\A h \in Conns :
            scope[h].thread_id # 0 =>
                \A id \in RowsOf(channel[h]) \cup RowsOf(outbound[h]) :
                    /\ id \in 1..Len(replies)
                    /\ replies[id].message_id = scope[h].thread_id)
    /\ [](\A c \in Conns :
            pc[c] = "fanout" =>
                \A i \in 1..Len(local[c].others) :
                    scope[local[c].others[i][2]].thread_id \in {scope[c].thread_id, 0})
    /\ [][\A c \in Conns :
            (\/ Push(c, TRUE)
             \/ \E frame \in {f \in InFrames : f.type \in {"typing_start", "typing_stop"}} :
                   Receive(c, frame, TRUE))
            => \A h \in Conns :
                  channel'[h] # channel[h] => scope[h].thread_id \in {scope[c].thread_id, 0}]_vars

\* A message of thread 7 has been pushed to the peer connected on thread 7
\* while a connection registered under thread 8 has been sent nothing but
\* its accept.
C30_Witness ==
    \E c, h, o \in Conns :
        /\ scope[c].thread_id = 7 /\ scope[h].thread_id = 7 /\ scope[o].thread_id = 8
        /\ \E e \in Entries(8) : e[2] = o
        /\ [event |-> "sent", id |-> 1, to |-> {h}] \in log
        /\ MsgFrames(channel[h], 1) = 1
        /\ replies[1].replied_by = scope[c].user
        /\ channel[o] = <<>>
        /\ outbound[o] = <<AcceptEvent>>

====
